---- MODULE Spec2Model ----
(***************************************************************************)
(* Model of InjectionSimulator (src/simulator.py): the per-day vial        *)
(* depletion state machine for one trial, together with the grid of dose   *)
(* rates that the driver (src/optimal_injections.py) feeds it.             *)
(*                                                                         *)
(* Numbers.  The program computes with IEEE-754 binary64 values and never  *)
(* rounds them after construction, so the model keeps every volume as the  *)
(* exact double the program holds.  A double x is the record [n, e] with   *)
(*     x = n / 1000 + e / (1000 * 2^59)            (n, e integers)         *)
(* n is the value in thousandths of a mL, e is what the binary value has   *)
(* above or below that decimal.  Every double of magnitude in              *)
(* [2^-10, 2^10) is such a pair with a small e, sums and differences of    *)
(* pairs are exact, and Fl rounds an exact pair to the nearest double      *)
(* (ties to even), which is what +, - and * of the program do.             *)
(***************************************************************************)
EXTENDS Integers, Sequences, FiniteSets

\* ---- bounds of the model ------------------------------------------------
MaxPeople == 3
MaxFreq == 2
MaxVials == 2
\* how many leading elements of each dose_unit range of the driver are used
ArangeLen == 3

\* ---- binary64 arithmetic -------------------------------------------------

\* e counts units of 1 / (1000 * 2^FracBits)
FracBits == 59
\* a double has 53 significant bits
Precision == 53

RECURSIVE PowerOf2(_)
PowerOf2(k) == IF k = 0 THEN 1 ELSE 2 * PowerOf2(k - 1)

\* 2^k for the exponents the model needs, tabulated once
Pow2Table == [k \in 0..20 |-> PowerOf2(k)]
Pow2(k) == Pow2Table[k]

RECURSIVE PowerOf2Mod(_, _)
\* 2^k modulo m
PowerOf2Mod(k, m) ==
    IF k = 0 THEN 1 % m ELSE (2 * PowerOf2Mod(k - 1, m)) % m

\* 2^k modulo m for the moduli 125, 250, 500, 1000, tabulated once
Pow2ModTable ==
    [m \in {125, 250, 500, 1000} |->
        [k \in 0..FracBits |-> PowerOf2Mod(k, m)]]
Pow2Mod(k, m) == Pow2ModTable[m][k]

\* the pairs [n, e]
Pairs == [n : Int, e : Int]

Zero == [n |-> 0, e |-> 0]
Plus(a, b) == [n |-> a.n + b.n, e |-> a.e + b.e]
Minus(a, b) == [n |-> a.n - b.n, e |-> a.e - b.e]
Negate(a) == [n |-> 0 - a.n, e |-> 0 - a.e]
Times(a, k) == [n |-> a.n * k, e |-> a.e * k]

\* comparisons of exact values (also those of the doubles they denote)
IsNeg(a) == a.n < 0 \/ (a.n = 0 /\ a.e < 0)
Ge(a, b) == ~IsNeg(Minus(a, b))
Gt(a, b) == IsNeg(Minus(b, a))
Lt(a, b) == IsNeg(Minus(a, b))
Le(a, b) == ~IsNeg(Minus(b, a))

\* a >= 2^(j - 10) for a >= 0: 64000 * 2^(j - 10) = 125 * 2^(j - 1)
AtLeastPow2(a, j) ==
    LET t == 125 * Pow2(j - 1)
    IN  64 * a.n > t \/ (64 * a.n = t /\ a.e >= 0)

\* the binades [2^(j-10), 2^(j-9)) that the model distinguishes
Binades == 1..20

\* log2 of the spacing of the doubles around a >= 0, in units of 2^-FracBits:
\* a in [2^k, 2^(k+1)) has spacing 2^(k - 52); values below 2^-9 arise only
\* as exact differences and already lie on the finest grid
UlpExp(a) ==
    Cardinality({j \in Binades : AtLeastPow2(a, j)})
        - 10 - (Precision - 1) + FracBits

\* 1000 * 2^s, the spacing 2^s in the unit of e
Spacing(s) == IF s >= 0 THEN 1000 * Pow2(s) ELSE 1000 \div Pow2(0 - s)

\* (a.n * 2^FracBits + a.e) modulo Spacing(s): how far a >= 0 lies above the
\* multiple of the spacing below it
Resid(a, s) ==
    IF s >= 0
    THEN (Pow2(s) * (((a.n % 1000) * Pow2Mod(FracBits - s, 1000)) % 1000)
            + a.e) % Spacing(s)
    ELSE ((a.n % Spacing(s)) * Pow2Mod(FracBits, Spacing(s)) + a.e)
            % Spacing(s)

\* a >= 0 rounded to the nearest multiple of the spacing 2^s, ties to the
\* even multiple
RoundTo ==
    [a \in Pairs, s \in Int |->
        LET m == Spacing(s)
            r == Resid(a, s)
            down == [n |-> a.n, e |-> a.e - r]
            up == [n |-> a.n, e |-> a.e + (m - r)]
        IN  IF r = 0 THEN a
            ELSE IF 2 * r < m THEN down
            ELSE IF 2 * r > m THEN up
            ELSE IF Resid(a, s + 1) >= m THEN up ELSE down]

\* the double nearest to a >= 0
FlPos(a) == RoundTo[a, UlpExp(a)]

\* the double nearest to the exact value a (rounding is symmetric in sign)
Nearest ==
    [a \in Pairs |->
        IF IsNeg(a) THEN Negate(FlPos(Negate(a))) ELSE FlPos(a)]
Fl(a) == Nearest[a]

\* x + y, x - y and x * k (k an int) as the program evaluates them
FAdd(a, b) == Fl(Plus(a, b))
FSub(a, b) == Fl(Minus(a, b))
FMul(a, k) == Fl(Times(a, k))

\* the rounding error of one operation, in the unit of e: the distance
\* between the double the program stores and the exact sum or difference it
\* is rounded from (both have the same n)
RoundErr(stored, exact) ==
    IF stored.e >= exact.e THEN stored.e - exact.e ELSE exact.e - stored.e

\* the double that a decimal literal of t thousandths denotes
Lit(t) == Fl([n |-> t, e |-> 0])

\* ---- program constants --------------------------------------------------
\* vial_volume = 5.0
VialVolume == Lit(5000)

\* np.arange(start, stop, step=step)[k - 1] with start, step in thousandths:
\* the first two elements are start and start + step, the others are
\* start + (k - 1) * delta with delta = (start + step) - start
Arange(start, step, k) ==
    LET first == Lit(start)
        second == FAdd(first, Lit(step))
        delta == FSub(second, first)
    IN  IF k = 1 THEN first
        ELSE IF k = 2 THEN second
        ELSE FAdd(first, FMul(delta, k - 1))

\* the three people of the driver: start of dose_unit and its length
\* ceil((stop - start) / step), both in thousandths, and dose_freq
Step == 1
Alice == [start |-> 38, len |-> 5, freq |-> {7, 8}]
Bob == [start |-> 60, len |-> 4, freq |-> {4, 5}]
Charlie == [start |-> 49, len |-> 3, freq |-> {5, 6, 7}]

\* the dose_unit values of person p that the model uses
DoseUnits(p) ==
    {Arange(p.start, Step, k) :
        k \in 1..(IF ArangeLen < p.len THEN ArangeLen ELSE p.len)}

\* the dose_info tuples of itertools.product(*iter_list)
DriverTrials ==
    {<<a, fa, b, fb, c, fc>> :
        a \in DoseUnits(Alice), fa \in Alice.freq,
        b \in DoseUnits(Bob), fb \in Bob.freq,
        c \in DoseUnits(Charlie), fc \in Charlie.freq}

\* dose rates of the trials built by hand, in thousandths of a mL per day:
\* 0.625 rounds (0.625 -> 0.62), 2.0 and 4.0 are the two-person scenario,
\* 5.0 is a dose of a whole vial, 0 is an illegal dose
Rates == {Lit(t) : t \in {0, 625, 2000, 4000, 5000}}
Freqs == 1..MaxFreq

\* the dose_info tuples of n people over Rates and Freqs
HandTrials(n) ==
    {[j \in 1..(2 * n) |->
         IF j % 2 = 1 THEN r[(j + 1) \div 2] ELSE f[j \div 2]] :
        r \in [1..n -> Rates], f \in [1..n -> Freqs]}

VARIABLES
    total_people, dose_info, num_vials, vial_volume,
    dosage_dicts, injections_handled,
    leftover_vial, leftover_amount, vials_used, waste, left_in_vial,
    early_termination, day, pc, i, result,
    \* history variables (observations of the run, never read by the code):
    \* consumed = volume injected so far, injected/drawn = per person today,
    \* passes = passes of today, failed = an attempt failed in this pass,
    \* last_branch = branch of the last update_vials_used call,
    \* overwritten = volume of active leftovers replaced, reached_day = day
    \* on which vials_used first reached num_vials, last_source = source of
    \* the last do_injection call, opened = vials opened (primary refilled),
    \* overwrote = the last update_vials_used call replaced an active leftover,
    \* served = successful injections of the current pass, roundoff = the
    \* rounding errors |stored double - exact result| of the sums and
    \* differences the run has stored in waste, left_in_vial or
    \* leftover_amount, added up (unit of e: 1 / (1000 * 2^59) mL).
    \* The volumes among them (consumed, drawn, overwritten) are exact sums of
    \* doubles.
    consumed, injected, drawn, passes, failed, last_branch, overwritten,
    reached_day, last_source, opened, overwrote, served, roundoff

vars == <<total_people, dose_info, num_vials, vial_volume,
          dosage_dicts, injections_handled,
          leftover_vial, leftover_amount, vials_used, waste, left_in_vial,
          early_termination, day, pc, i, result,
          consumed, injected, drawn, passes, failed, last_branch, overwritten,
          reached_day, last_source, opened, overwrote, served, roundoff>>

\* ---- construction -------------------------------------------------------

\* round(x, 2) in hundredths: the decimal nearest to the binary value of x,
\* so a decimal tie (n ending in 5) is decided by what x has above or below
\* it, and only an exact tie goes to the even hundredth.  (The driver passes
\* numpy scalars, whose round scales by 100 and rounds to an integer; on every
\* product of the driver's grid both give the same hundredth.)
Round2(x) ==
    LET q == x.n \div 10
        r == x.n % 10
    IN  IF r > 5 \/ (r = 5 /\ (x.e > 0 \/ (x.e = 0 /\ q % 2 = 1)))
        THEN q + 1 ELSE q

\* round(dose_info[0 + 2*i]*dose_info[1 + 2*i], 2): the double nearest to the
\* rounded decimal
Dosage(rate, freq) == Lit(10 * Round2(FMul(rate, freq)))

\* the info dict of person k (1-based), names are the positions in namelist
Info(di, k) ==
    [dosage |-> Dosage(di[2*k - 1], di[2*k]),
     frequency |-> di[2*k],
     name |-> k]

RECURSIVE InsertDesc(_, _)
\* place x behind every entry whose dosage is >= x.dosage (stable)
InsertDesc(s, x) ==
    IF s = <<>> THEN <<x>>
    ELSE IF Ge(Head(s).dosage, x.dosage)
         THEN <<Head(s)>> \o InsertDesc(Tail(s), x)
         ELSE <<x>> \o s

\* the roster left in the order of namelist (the sort forgotten)
SortedDesc_unsorted(s) == s

RECURSIVE SortedDesc(_)
\* sorted(dosage_dicts, key=dosage, reverse=True)
SortedDesc(s) ==
    IF s = <<>> THEN <<>>
    ELSE InsertDesc(SortedDesc(SubSeq(s, 1, Len(s) - 1)), s[Len(s)])

Roster(n, di) == SortedDesc([k \in 1..n |-> Info(di, k)])

\* check_legal_dosages with the upper test written >= : a dose that is
\* exactly one vial is rejected
CheckLegalDosages_ge(dd, vv) ==
    Ge(dd[1].dosage, vv) \/ Le(dd[Len(dd)].dosage, Zero)

\* check_legal_dosages: the value of early_termination
CheckLegalDosages(dd, vv) ==
    Gt(dd[1].dosage, vv) \/ Le(dd[Len(dd)].dosage, Zero)

MaxDosage == dosage_dicts[1].dosage
MinDosage == dosage_dicts[Len(dosage_dicts)].dosage

NoResult == [is_none |-> TRUE, waste |-> Zero, day |-> 0, roster |-> <<>>]

Init ==
    /\ total_people \in 1..MaxPeople
    /\ dose_info \in HandTrials(total_people)
                       \cup (IF total_people = 3 THEN DriverTrials ELSE {})
    /\ num_vials \in 1..MaxVials
    /\ vial_volume = VialVolume
    /\ dosage_dicts = Roster(total_people, dose_info)
    /\ injections_handled = [k \in 1..total_people |-> FALSE]
    /\ leftover_vial = FALSE
    /\ leftover_amount = Zero
    /\ vials_used = 0
    /\ waste = Zero
    /\ left_in_vial = vial_volume
    /\ early_termination = CheckLegalDosages(dosage_dicts, vial_volume)
    /\ day = 0
    /\ pc = "constructed"
    /\ i = 1
    /\ result = NoResult
    /\ consumed = Zero
    /\ injected = [k \in 1..total_people |-> 0]
    /\ drawn = [k \in 1..total_people |-> Zero]
    /\ passes = 0
    /\ failed = FALSE
    /\ last_branch = "none"
    /\ overwritten = Zero
    /\ reached_day = 0
    /\ last_source = "none"
    /\ opened = 1
    /\ overwrote = FALSE
    /\ served = 0
    /\ roundoff = 0

\* ---- do_injection -------------------------------------------------------

\* what one call leaves behind: return value, the source drawn from, and the
\* fields it may assign
InjectionOutcome(ret, source, la, w, lv, liv) ==
    [ret |-> ret, source |-> source, leftover_amount |-> la, waste |-> w,
     leftover_vial |-> lv, left_in_vial |-> liv]

\* the call found no source: nothing is assigned
Refused ==
    InjectionOutcome(FALSE, "none", leftover_amount, waste, leftover_vial,
                     left_in_vial)

\* the branch that draws from the primary vial
FromPrimary(dose) ==
    InjectionOutcome(TRUE, "primary", leftover_amount, waste, leftover_vial,
                     FSub(left_in_vial, dose))

\* the branch that draws from the leftover; w is what goes to waste when the
\* remainder la no longer covers the smallest dosage, liv the primary vial
FromLeftover(la, w, liv) ==
    IF IsNeg(FSub(la, MinDosage))
    THEN InjectionOutcome(TRUE, "leftover", la, FAdd(waste, w), FALSE, liv)
    ELSE InjectionOutcome(TRUE, "leftover", la, waste, leftover_vial, liv)

\* do_injection whose primary-vial test is written > instead of >= : a dose
\* that would empty the vial exactly is refused
do_injection_strict(dose) ==
    IF leftover_vial /\ ~IsNeg(FSub(leftover_amount, dose))
    THEN LET la == FSub(leftover_amount, dose)
         IN  FromLeftover(la, la, left_in_vial)
    ELSE IF Gt(FSub(left_in_vial, dose), Zero)
    THEN FromPrimary(dose)
    ELSE Refused

\* do_injection with the two tests in the wrong order: the primary vial is
\* tried before the leftover
do_injection_primaryfirst(dose) ==
    IF ~IsNeg(FSub(left_in_vial, dose))
    THEN FromPrimary(dose)
    ELSE IF leftover_vial /\ ~IsNeg(FSub(leftover_amount, dose))
    THEN LET la == FSub(leftover_amount, dose)
         IN  FromLeftover(la, la, left_in_vial)
    ELSE Refused

\* do_injection with the elif written as a second if: after a draw from the
\* leftover the primary vial is charged as well when it covers the dose
do_injection_both(dose) ==
    IF leftover_vial /\ ~IsNeg(FSub(leftover_amount, dose))
    THEN LET la == FSub(leftover_amount, dose)
             liv == IF ~IsNeg(FSub(left_in_vial, dose))
                    THEN FSub(left_in_vial, dose) ELSE left_in_vial
         IN  FromLeftover(la, la, liv)
    ELSE IF ~IsNeg(FSub(left_in_vial, dose))
    THEN FromPrimary(dose)
    ELSE Refused

\* do_injection that books the leftover as waste before the dose is taken
\* off: the dose is counted as injected and as wasted
do_injection_wastefull(dose) ==
    IF leftover_vial /\ ~IsNeg(FSub(leftover_amount, dose))
    THEN LET la == FSub(leftover_amount, dose)
         IN  FromLeftover(la, leftover_amount, left_in_vial)
    ELSE IF ~IsNeg(FSub(left_in_vial, dose))
    THEN FromPrimary(dose)
    ELSE Refused

\* the effect of do_injection(dose) on the current state and its return
\* value; a test x - y >= 0 is taken on the rounded difference
do_injection(dose) ==
    IF leftover_vial /\ ~IsNeg(FSub(leftover_amount, dose))
    THEN LET la == FSub(leftover_amount, dose)
         IN  FromLeftover(la, la, left_in_vial)
    ELSE IF ~IsNeg(FSub(left_in_vial, dose))
    THEN FromPrimary(dose)
    ELSE Refused

\* ---- update_vials_used --------------------------------------------------

\* what one call leaves behind: the branch taken and the fields it may assign
UpdateOutcome(branch, w, vu, liv, lv, la) ==
    [branch |-> branch, waste |-> w, vials_used |-> vu, left_in_vial |-> liv,
     leftover_vial |-> lv, leftover_amount |-> la]

\* the first branch: the vial is discarded, w is the new waste and vu the
\* new count
Discarded(w, vu) ==
    UpdateOutcome("discard", w, vu, vial_volume, leftover_vial,
                  leftover_amount)

\* the second branch: the vial becomes the leftover, w is the new waste and
\* vu the new count
MadeLeftover(w, vu) ==
    UpdateOutcome("leftover", w, vu, vial_volume, TRUE, left_in_vial)

\* neither branch: nothing is assigned
Kept ==
    UpdateOutcome("none", waste, vials_used, left_in_vial, leftover_vial,
                  leftover_amount)

\* update_vials_used whose discarding branch forgets to count the waste
update_vials_used_nowaste ==
    IF Lt(left_in_vial, MinDosage)
    THEN Discarded(waste, vials_used + 1)
    ELSE IF Ge(left_in_vial, MinDosage) /\ Lt(left_in_vial, MaxDosage)
    THEN MadeLeftover(waste, vials_used + 1)
    ELSE Kept

\* update_vials_used whose discarding branch assigns the remainder to waste
\* instead of adding it
update_vials_used_setwaste ==
    IF Lt(left_in_vial, MinDosage)
    THEN Discarded(left_in_vial, vials_used + 1)
    ELSE IF Ge(left_in_vial, MinDosage) /\ Lt(left_in_vial, MaxDosage)
    THEN MadeLeftover(waste, vials_used + 1)
    ELSE Kept

\* update_vials_used whose leftover branch compares with <= : a remainder
\* that still covers the largest dose is retired as well
update_vials_used_le ==
    IF Lt(left_in_vial, MinDosage)
    THEN Discarded(FAdd(waste, left_in_vial), vials_used + 1)
    ELSE IF Ge(left_in_vial, MinDosage) /\ Le(left_in_vial, MaxDosage)
    THEN MadeLeftover(waste, vials_used + 1)
    ELSE Kept

\* update_vials_used that books a still-active leftover as waste before it
\* stores the new one
update_vials_used_wasteold ==
    IF Lt(left_in_vial, MinDosage)
    THEN Discarded(FAdd(waste, left_in_vial), vials_used + 1)
    ELSE IF Ge(left_in_vial, MinDosage) /\ Lt(left_in_vial, MaxDosage)
    THEN MadeLeftover(IF leftover_vial THEN FAdd(waste, leftover_amount)
                                       ELSE waste,
                      vials_used + 1)
    ELSE Kept

\* update_vials_used whose leftover branch forgets to count the retired vial
update_vials_used_nocount ==
    IF Lt(left_in_vial, MinDosage)
    THEN Discarded(FAdd(waste, left_in_vial), vials_used + 1)
    ELSE IF Ge(left_in_vial, MinDosage) /\ Lt(left_in_vial, MaxDosage)
    THEN MadeLeftover(waste, vials_used)
    ELSE Kept

\* update_vials_used without the leftover branch: a vial is retired only
\* when it cannot serve anyone
update_vials_used_noleftover ==
    IF Lt(left_in_vial, MinDosage)
    THEN Discarded(FAdd(waste, left_in_vial), vials_used + 1)
    ELSE Kept

\* the effect of update_vials_used() on the current state
update_vials_used ==
    IF Lt(left_in_vial, MinDosage)
    THEN Discarded(FAdd(waste, left_in_vial), vials_used + 1)
    ELSE IF Ge(left_in_vial, MinDosage) /\ Lt(left_in_vial, MaxDosage)
    THEN MadeLeftover(waste, vials_used + 1)
    ELSE Kept

\* ---- run_simulation -----------------------------------------------------

\* person k is due for an injection today
Due(k) == day % dosage_dicts[k].frequency = 0

\* the for loop's test with the handled flag forgotten
ShouldInject_due(k) == Due(k)

\* the for loop's test: due today and not handled yet
ShouldInject(k) == Due(k) /\ ~injections_handled[k]

\* the pass counter of the current day; it saturates one above the roster
\* size, the largest number a pass count is ever compared with
CountPass(p) == IF p <= total_people THEN p + 1 ELSE p

\* the value run_simulation returns when the outer loop ends
Result == [is_none |-> FALSE, waste |-> waste, day |-> day,
           roster |-> dosage_dicts]

\* entry of run_simulation: the early-termination test
RunEarlyReturn ==
    /\ pc = "constructed"
    /\ early_termination
    /\ result' = NoResult
    /\ pc' = "done"
    /\ UNCHANGED <<total_people, dose_info, num_vials, vial_volume,
                   last_branch, last_source, opened, overwrote, served,
                   dosage_dicts, injections_handled, leftover_vial,
                   leftover_amount, vials_used, waste, left_in_vial,
                   early_termination, day, i, consumed, injected, drawn,
                   passes, failed, overwritten, roundoff, reached_day>>

\* entry of run_simulation for a legal roster: self.day = 1
RunStart ==
    /\ pc = "constructed"
    /\ ~early_termination
    /\ day' = 1
    /\ pc' = "outer"
    /\ UNCHANGED <<total_people, dose_info, num_vials, vial_volume,
                   last_branch, last_source, opened, overwrote, served,
                   dosage_dicts, injections_handled, leftover_vial,
                   leftover_amount, vials_used, waste, left_in_vial,
                   early_termination, i, result, consumed, injected, drawn,
                   passes, failed, overwritten, roundoff, reached_day>>

\* outer loop test true: a new day begins, nobody is handled yet
DayBegin ==
    /\ pc = "outer"
    /\ vials_used < num_vials
    /\ injections_handled' = [k \in 1..total_people |-> FALSE]
    /\ injected' = [k \in 1..total_people |-> 0]
    /\ drawn' = [k \in 1..total_people |-> Zero]
    /\ passes' = 0
    /\ pc' = "inner"
    /\ UNCHANGED <<total_people, dose_info, num_vials, vial_volume,
                   last_branch, last_source, opened, overwrote, served,
                   dosage_dicts, leftover_vial, leftover_amount, vials_used,
                   waste, left_in_vial, early_termination, day, i, result,
                   consumed, failed, overwritten, roundoff, reached_day>>

\* outer loop test false: return [waste, day, dosage_dicts]
RunReturn ==
    /\ pc = "outer"
    /\ ~(vials_used < num_vials)
    /\ result' = Result
    /\ pc' = "done"
    /\ UNCHANGED <<total_people, dose_info, num_vials, vial_volume,
                   last_branch, last_source, opened, overwrote, served,
                   dosage_dicts, injections_handled, leftover_vial,
                   leftover_amount, vials_used, waste, left_in_vial,
                   early_termination, day, i, consumed, injected, drawn,
                   passes, failed, overwritten, roundoff, reached_day>>

\* inner loop test true: a pass over the roster begins
PassBegin ==
    /\ pc = "inner"
    /\ \E k \in 1..total_people : ~injections_handled[k]
    /\ i' = 1
    /\ passes' = CountPass(passes)
    /\ failed' = FALSE
    /\ last_branch' = "none"
    /\ pc' = "for"
    /\ UNCHANGED <<total_people, dose_info, num_vials, vial_volume,
                   dosage_dicts, injections_handled, leftover_vial,
                   leftover_amount, vials_used, waste, left_in_vial,
                   early_termination, day, result, consumed, injected,
                   drawn, overwritten, roundoff, reached_day, last_source,
                   opened, overwrote>>
    /\ served' = 0

\* inner loop test false: self.day = self.day + 1
DayAdvance ==
    /\ pc = "inner"
    /\ \A k \in 1..total_people : injections_handled[k]
    /\ day' = day + 1
    /\ pc' = "outer"
    /\ UNCHANGED <<total_people, dose_info, num_vials, vial_volume,
                   last_branch, last_source, opened, overwrote, served,
                   dosage_dicts, injections_handled, leftover_vial,
                   leftover_amount, vials_used, waste, left_in_vial,
                   early_termination, i, result, consumed, injected, drawn,
                   passes, failed, overwritten, roundoff, reached_day>>

\* what a do_injection(dose) call with outcome r adds to roundoff: the call
\* stores the difference source - dose, and the sum waste + leftover_amount
\* when it retires the leftover
InjectRoundoff(dose, r) ==
    IF ~r.ret THEN 0
    ELSE IF r.source = "leftover"
    THEN RoundErr(r.leftover_amount, Minus(leftover_amount, dose))
            + (IF leftover_vial /\ ~r.leftover_vial
               THEN RoundErr(r.waste, Plus(waste, r.leftover_amount))
               ELSE 0)
    ELSE RoundErr(r.left_in_vial, Minus(left_in_vial, dose))

\* one iteration of the for loop, person i is due and unhandled
Inject ==
    /\ pc = "for"
    /\ ShouldInject(i)
    /\ \E dose \in {dosage_dicts[i].dosage} :
       \E r \in {do_injection(dose)} :
           /\ injections_handled' = [injections_handled EXCEPT ![i] = r.ret]
           /\ leftover_amount' = r.leftover_amount
           /\ leftover_vial' = r.leftover_vial
           /\ waste' = r.waste
           /\ left_in_vial' = r.left_in_vial
           /\ consumed' = IF r.ret THEN Plus(consumed, dose) ELSE consumed
           /\ injected' = IF r.ret
                          THEN [injected EXCEPT ![i] = @ + 1] ELSE injected
           /\ drawn' = IF r.ret THEN [drawn EXCEPT ![i] = Plus(@, dose)]
                                ELSE drawn
           /\ failed' = (failed \/ ~r.ret)
           /\ last_source' = r.source
           /\ served' = IF r.ret THEN served + 1 ELSE served
           /\ roundoff' = roundoff + InjectRoundoff(dose, r)
    /\ IF i = total_people THEN pc' = "update" /\ i' = i
                           ELSE pc' = "for" /\ i' = i + 1
    /\ UNCHANGED <<total_people, dose_info, num_vials, vial_volume,
                   last_branch, opened, overwrote,
                   dosage_dicts, vials_used, early_termination, day, result,
                   passes, overwritten, reached_day>>

\* one iteration of the for loop, person i is not due or already handled
Skip ==
    /\ pc = "for"
    /\ ~ShouldInject(i)
    /\ injections_handled' = [injections_handled EXCEPT ![i] = TRUE]
    /\ IF i = total_people THEN pc' = "update" /\ i' = i
                           ELSE pc' = "for" /\ i' = i + 1
    /\ UNCHANGED <<total_people, dose_info, num_vials, vial_volume,
                   last_branch, last_source, opened, overwrote, served,
                   dosage_dicts, leftover_vial, leftover_amount, vials_used,
                   waste, left_in_vial, early_termination, day, result,
                   consumed, injected, drawn, passes, failed, overwritten,
                   roundoff,
                   reached_day>>

\* the call of update_vials_used() that ends every pass
UpdateVials ==
    /\ pc = "update"
    /\ \E u \in {update_vials_used} :
           /\ waste' = u.waste
           /\ vials_used' = u.vials_used
           /\ left_in_vial' = u.left_in_vial
           /\ leftover_vial' = u.leftover_vial
           /\ leftover_amount' = u.leftover_amount
           /\ last_branch' = u.branch
           /\ overwritten' = IF u.branch = "leftover" /\ leftover_vial
                             THEN Plus(overwritten, leftover_amount)
                             ELSE overwritten
           /\ reached_day' = IF reached_day = 0 /\ u.vials_used >= num_vials
                             THEN day ELSE reached_day
           /\ overwrote' = (u.branch = "leftover" /\ leftover_vial)
           /\ opened' = IF u.branch # "none" THEN opened + 1 ELSE opened
           /\ roundoff' = IF u.branch = "discard"
                          THEN roundoff
                                + RoundErr(u.waste, Plus(waste, left_in_vial))
                          ELSE roundoff
    /\ pc' = "inner"
    /\ UNCHANGED <<total_people, dose_info, num_vials, vial_volume,
                   dosage_dicts, injections_handled, early_termination, day,
                   i, result, consumed, injected, drawn, passes, failed,
                   last_source, served>>

Next ==
    \/ RunEarlyReturn
    \/ RunStart
    \/ DayBegin
    \/ RunReturn
    \/ PassBegin
    \/ DayAdvance
    \/ Inject
    \/ Skip
    \/ UpdateVials

Spec == Init /\ [][Next]_vars

\* the interpreter runs the loop to its end: every enabled step is taken
FairSpec == Spec /\ WF_vars(Next)

\* ---- derived quantities used by the properties --------------------------

\* what the leftover fragment holds
LeftoverHeld == IF leftover_vial THEN leftover_amount ELSE Zero

\* the raw dosages of the trial, before sorting
\* the dose rates and frequencies a trial of the model can be given, and the
\* dosage the constructor computes for each combination
RateInputs ==
    Rates \cup DoseUnits(Alice) \cup DoseUnits(Bob) \cup DoseUnits(Charlie)
FreqInputs == Freqs \cup Alice.freq \cup Bob.freq \cup Charlie.freq
DosageOf == [r \in RateInputs, f \in FreqInputs |-> Dosage(r, f)]

RawDosages ==
    {DosageOf[dose_info[2*k - 1], dose_info[2*k]] : k \in 1..total_people}

\* the roster breaks one of the two legality conditions
InvalidRoster ==
    \/ \E d \in RawDosages : Gt(d, vial_volume)
    \/ \E d \in RawDosages : Le(d, Zero)

\* the simulation state is still the one the constructor left
Untouched ==
    /\ waste = Zero /\ vials_used = 0 /\ left_in_vial = vial_volume
    /\ leftover_vial = FALSE /\ leftover_amount = Zero
    /\ day = 0 /\ consumed = Zero /\ passes = 0

Returned == pc = "done" /\ ~result.is_none

InDay == pc \in {"inner", "for", "update"}

\* the number of people due on day d
DueCount(d) ==
    Cardinality({k \in 1..total_people : d % dosage_dicts[k].frequency = 0})

\* what person k must have received on a fully processed day d
OwedOn(k, d) == IF d % dosage_dicts[k].frequency = 0 THEN 1 ELSE 0

\* the inputs of the two-person scenario: 2.0 mL and 4.0 mL per injection,
\* every day, two vials
Scenario ==
    /\ total_people = 2
    /\ dose_info = <<Lit(2000), 1, Lit(4000), 1>>
    /\ num_vials = 2
    /\ vial_volume = Lit(5000)

TypeOK ==
    /\ total_people \in 1..MaxPeople
    /\ pc \in {"constructed", "outer", "inner", "for", "update", "done"}
    /\ leftover_vial \in BOOLEAN
    /\ early_termination \in BOOLEAN
    /\ vials_used \in Nat
    /\ day \in Nat
    /\ \A x \in {waste, left_in_vial, leftover_amount, vial_volume} :
          x.n \in Nat /\ x.e \in Int
    /\ roundoff \in Nat

\* what the four places hold together: waste, injected volume, primary vial
\* and active leftover, summed exactly
Balance == Plus(Plus(Plus(waste, consumed), left_in_vial), LeftoverHeld)

\* the volume of k vials, exactly
Supply(k) == Times(vial_volume, k)

\* the exact volumes a and b differ by at most t (t in the unit of e)
Within(a, b, t) ==
    /\ a.n = b.n
    /\ a.e - b.e <= t /\ b.e - a.e <= t

\* a is at most b plus t
AtMost(a, b, t) ==
    \/ a.n < b.n
    \/ a.n = b.n /\ a.e - b.e <= t

\* ---- C1 ------------------------------------------------------------------

\* C1 as stated: waste + consumed + left_in_vial + active leftover equals
\* vials_used * vial_volume in every state of a valid trial.
C1_ConservationAsStated ==
    ~early_termination =>
        Balance = Supply(vials_used)

\* C1 amended: the vial that is open and not yet counted in vials_used and
\* the volume of active leftovers overwritten by a replacement enter the
\* balance: waste + consumed + left_in_vial + active leftover + overwritten
\* volume = (vials_used + 1) * vial_volume in every state of a valid trial,
\* up to the rounding error the run has accumulated: the two sides differ by
\* at most the sum of the rounding errors (stored double against exact
\* result) of the floating-point sums and differences the run has stored in
\* waste, left_in_vial and leftover_amount so far.
C1_Conservation ==
    ~early_termination =>
        Within(Plus(Balance, overwritten), Supply(vials_used + 1), roundoff)

\* an active leftover was overwritten, a later one is held, and the computed
\* balance has drifted from the exact one by rounding
C1_Witness ==
    /\ ~early_termination
    /\ Gt(consumed, Zero) /\ Gt(overwritten, Zero)
    /\ leftover_vial /\ vials_used >= 2
    /\ Plus(Balance, overwritten) # Supply(vials_used + 1)
    /\ roundoff > 0

\* ---- C2 ------------------------------------------------------------------

\* C2: the day that run_simulation returns is the day during which
\* vials_used first reached num_vials.
C2_ReturnedDayIsTargetDay ==
    Returned => result.day = reached_day

\* ---- C3 ------------------------------------------------------------------

\* C3: a roster with a dosage above vial_volume or a dosage <= 0 makes
\* run_simulation return None with the simulation state untouched; every
\* other roster never returns None but the list [waste, day, roster].
C3_ValidityGate ==
    /\ InvalidRoster =>
          /\ Untouched
          /\ pc \in {"constructed", "done"}
          /\ (pc = "done" => result.is_none)
    /\ (~InvalidRoster /\ pc = "done") =>
          /\ ~result.is_none
          /\ result.waste = waste /\ result.day = day
          /\ result.roster = dosage_dicts

C3_Witness ==
    /\ pc = "done" /\ result.is_none
    /\ \E d \in RawDosages : Gt(d, vial_volume)
    /\ \A d \in RawDosages : Gt(d, Zero)

\* ---- C4 ------------------------------------------------------------------

\* C4 as stated: the inner retry loop needs at most two passes on any day.
C4_AtMostTwoPasses ==
    InDay => passes <= 2

\* C4 amended: on every day of a valid trial the inner retry loop finishes
\* within at most max(1, number of people due that day) passes.
C4_PassesBoundedByDue ==
    InDay => passes <= (IF DueCount(day) = 0 THEN 1 ELSE DueCount(day))

C4_Witness ==
    /\ pc = "inner" /\ passes = 3
    /\ \A k \in 1..total_people : injections_handled[k]

\* ---- C5 ------------------------------------------------------------------

\* C5: every valid trial returns: each pass and each day comes to its end and
\* the outer loop eventually stops with a result.
C5_Termination ==
    /\ (~early_termination) => <>Returned
    /\ (pc = "for") ~> (pc = "outer")

C5_Witness ==
    Returned /\ result.day >= 3 /\ passes >= 2

\* ---- C6 ------------------------------------------------------------------

\* C6: waste is never negative and no step decreases it.
C6_WasteMonotone ==
    [](Ge(waste, Zero)) /\ [][Ge(waste', waste)]_vars

C6_Witness ==
    Returned /\ Gt(waste, Zero) /\ vials_used >= 2

\* ---- C7 ------------------------------------------------------------------

\* C7: when run_simulation returns a result, vials_used equals num_vials.
C7_ExactVialCount ==
    Returned => vials_used = num_vials

\* ---- C8 ------------------------------------------------------------------

\* C8 as stated: the scenario ends after day 1 with two vials used, a 3.0 mL
\* leftover, 1.0 mL in the primary vial and no waste.
C8_ScenarioAsStated ==
    (Scenario /\ pc = "done") =>
        /\ reached_day = 1 /\ vials_used = 2
        /\ leftover_vial /\ leftover_amount = Lit(3000)
        /\ left_in_vial = Lit(1000)
        /\ waste = Zero

\* C8 amended: the scenario ends after day 1 with two vials used, a 3.0 mL
\* leftover, a full primary vial (5.0 mL) and 1.0 mL of waste.
C8_Scenario ==
    (Scenario /\ pc = "done") =>
        /\ reached_day = 1 /\ day = 2 /\ vials_used = 2
        /\ leftover_vial /\ leftover_amount = Lit(3000)
        /\ left_in_vial = Lit(5000)
        /\ waste = Lit(1000)
        /\ consumed = Lit(6000)

C8_Witness ==
    Scenario /\ Returned

\* ---- C9 ------------------------------------------------------------------

\* C9 as stated: a pass that ends with update_vials_used opening a new vial
\* is a pass in which an injection attempt failed.
C9_ReplacementOnlyAfterFailure ==
    (pc = "inner" /\ last_branch # "none") => failed

\* C9 amended: update_vials_used runs at the end of every pass and opens a
\* new vial (vials_used + 1) exactly when left_in_vial is below the largest
\* dosage at that point, failed attempt or not; no other step changes
\* vials_used, and a day on which nobody is due opens no vial.
C9_ReplacementWhenBelowMax ==
    [][/\ (vials_used' # vials_used) =>
            /\ pc = "update"
            /\ Lt(left_in_vial, MaxDosage)
            /\ DueCount(day) > 0
            /\ vials_used' = vials_used + 1
       /\ (pc = "update" /\ Lt(left_in_vial, MaxDosage)) =>
            vials_used' = vials_used + 1]_vars

C9_Witness ==
    pc = "inner" /\ last_branch # "none" /\ ~failed

\* ---- C10 -----------------------------------------------------------------

\* C10: during a day nobody is injected twice and nobody who is not due is
\* injected; a handled due person has received exactly one dose of exactly
\* the dosage; when the loop condition is evaluated (and at return) every
\* person due on the day just processed has been injected exactly once.
C10_ExactlyOnce ==
    /\ InDay =>
          \A k \in 1..total_people :
             /\ injected[k] <= 1
             /\ (injected[k] = 1) <=> (Due(k) /\ injections_handled[k])
             /\ drawn[k] = Times(dosage_dicts[k].dosage, injected[k])
    /\ (pc = "inner" /\ \A k \in 1..total_people : injections_handled[k]) =>
          \A k \in 1..total_people : injected[k] = OwedOn(k, day)
    /\ ((pc = "outer" \/ Returned) /\ day >= 2) =>
          \A k \in 1..total_people :
             /\ injected[k] = OwedOn(k, day - 1)
             /\ drawn[k] = Times(dosage_dicts[k].dosage, injected[k])

C10_Witness ==
    /\ Returned /\ passes >= 2
    /\ \E k \in 1..total_people : injected[k] = 1
    /\ \E k \in 1..total_people : injected[k] = 0

\* ---- C11 -----------------------------------------------------------------

\* the for loop is about to call do_injection for person i
Attempting == pc = "for" /\ ShouldInject(i)

\* C11: a do_injection call draws the dose from the leftover iff the leftover
\* is active and holds at least the dose, otherwise from the primary vial iff
\* that holds at least the dose, otherwise it fails; a success lowers exactly
\* one source by exactly the dose, and after a leftover draw the leftover
\* stays active iff its new amount is at least the smallest dosage, otherwise
\* the remainder goes to waste and the leftover is deactivated.
C11_SourcePolicy ==
    [][Attempting =>
        LET dose == dosage_dicts[i].dosage
        IN  IF leftover_vial /\ Ge(leftover_amount, dose)
            THEN /\ injections_handled'[i]
                 /\ leftover_amount' = FSub(leftover_amount, dose)
                 /\ left_in_vial' = left_in_vial
                 /\ leftover_vial' = Ge(leftover_amount', MinDosage)
                 /\ waste' = IF Ge(leftover_amount', MinDosage)
                             THEN waste ELSE FAdd(waste, leftover_amount')
            ELSE IF Ge(left_in_vial, dose)
            THEN /\ injections_handled'[i]
                 /\ left_in_vial' = FSub(left_in_vial, dose)
                 /\ leftover_amount' = leftover_amount
            ELSE /\ ~injections_handled'[i]
                 /\ left_in_vial' = left_in_vial
                 /\ leftover_amount' = leftover_amount]_vars

C11_Witness ==
    /\ pc \in {"for", "update"}
    /\ last_source = "leftover" /\ ~leftover_vial
    /\ Gt(leftover_amount, Zero)

\* ---- C12 -----------------------------------------------------------------

\* C12: a failed do_injection changes none of left_in_vial, leftover_vial,
\* leftover_amount, waste, vials_used; a draw from the primary vial leaves the
\* leftover, waste and vials_used unchanged; a draw from the leftover leaves
\* left_in_vial and vials_used unchanged.
C12_InjectionFrame ==
    [][Attempting =>
        /\ ~injections_handled'[i] =>
              UNCHANGED <<left_in_vial, leftover_vial, leftover_amount,
                          waste, vials_used>>
        /\ (left_in_vial' # left_in_vial) =>
              UNCHANGED <<leftover_vial, leftover_amount, waste, vials_used>>
        /\ (leftover_amount' # leftover_amount \/ leftover_vial' # leftover_vial
               \/ waste' # waste) =>
              UNCHANGED <<left_in_vial, vials_used>>
        /\ vials_used' = vials_used]_vars

C12_Witness ==
    /\ pc \in {"for", "update"}
    /\ failed /\ last_source = "none"
    /\ leftover_vial

\* ---- C13 -----------------------------------------------------------------

\* C13: update_vials_used (1) with left_in_vial below the smallest dosage
\* adds left_in_vial to waste, counts one vial, refills the primary vial and
\* leaves the leftover alone; (2) with left_in_vial at least the smallest
\* but below the largest dosage turns left_in_vial into the active leftover,
\* counts one vial, refills the primary vial and leaves waste alone; (3)
\* otherwise changes nothing.  With equal smallest and largest dosage no
\* leftover ever exists.
C13_ReplacementCases ==
    /\ [][pc = "update" =>
            IF Lt(left_in_vial, MinDosage)
            THEN /\ waste' = FAdd(waste, left_in_vial)
                 /\ vials_used' = vials_used + 1
                 /\ left_in_vial' = vial_volume
                 /\ UNCHANGED <<leftover_vial, leftover_amount>>
            ELSE IF Lt(left_in_vial, MaxDosage)
            THEN /\ leftover_vial' /\ leftover_amount' = left_in_vial
                 /\ vials_used' = vials_used + 1
                 /\ left_in_vial' = vial_volume
                 /\ waste' = waste
            ELSE UNCHANGED <<waste, vials_used, left_in_vial,
                             leftover_vial, leftover_amount>>]_vars
    /\ [](MinDosage = MaxDosage => ~leftover_vial)

C13_Witness ==
    /\ pc = "inner" /\ last_branch = "leftover"
    /\ leftover_vial /\ left_in_vial = vial_volume
    /\ Gt(waste, Zero)

\* ---- C14 -----------------------------------------------------------------

\* C14: a pass in which an injection attempt failed ends with a replacing
\* branch of update_vials_used: left_in_vial is below the largest dosage,
\* vials_used grows by exactly one and left_in_vial is reset to vial_volume.
C14_FailureForcesReplacement ==
    [][(pc = "update" /\ failed) =>
          /\ Lt(left_in_vial, MaxDosage)
          /\ vials_used' = vials_used + 1
          /\ left_in_vial' = vial_volume
          /\ last_branch' # "none"]_vars

C14_Witness ==
    /\ pc = "inner" /\ failed
    /\ last_branch = "discard" /\ left_in_vial = vial_volume
    /\ \E k \in 1..total_people : ~injections_handled[k]

\* ---- C15 -----------------------------------------------------------------

\* C15: when update_vials_used creates a leftover while the previous one is
\* still active, the previous amount is replaced by the new remainder and is
\* neither added to waste nor consumed by anyone; such a step is reachable
\* in a valid trial (C15_Witness).
C15_LeftoverOverwrite ==
    [][(/\ pc = "update" /\ leftover_vial
        /\ Ge(left_in_vial, MinDosage) /\ Lt(left_in_vial, MaxDosage)) =>
          /\ leftover_vial' /\ leftover_amount' = left_in_vial
          /\ waste' = waste
          /\ consumed' = consumed
          /\ drawn' = drawn]_vars

C15_Witness ==
    /\ ~early_termination
    /\ pc = "inner" /\ overwrote
    /\ leftover_vial /\ last_branch = "leftover"

\* ---- C16 -----------------------------------------------------------------

\* C16 as stated: vials_used is the number of vials opened so far, the open
\* one included, hence at least 1 from construction onward.
C16_CounterAsStated ==
    vials_used = opened /\ vials_used >= 1

\* C16 amended: vials_used is the number of vials retired so far (discarded
\* or turned into the leftover), one less than the number of vials opened;
\* it is 0 at construction and the open vial is counted only when
\* update_vials_used retires it.
C16_CounterMeaning ==
    /\ vials_used = opened - 1
    /\ vials_used >= 0
    /\ (pc = "constructed" => vials_used = 0)

C16_Witness ==
    /\ pc = "for" /\ vials_used = 2 /\ opened = 3
    /\ Lt(left_in_vial, vial_volume)

\* ---- C17 -----------------------------------------------------------------

\* C17: in a valid trial the primary vial holds at least the largest dosage
\* at the start of every day and of every pass; so no attempt of a pass
\* fails before one has succeeded, every pass on a day with somebody due
\* serves at least one person, and a day has at most max(1, number of
\* people due) passes.
C17_FreshPrimary ==
    /\ (~early_termination
          /\ (pc \in {"constructed", "outer", "inner", "done"}
               \/ (pc = "for" /\ i = 1))) =>
          Ge(left_in_vial, MaxDosage)
    /\ ((pc = "for" \/ pc = "update") /\ failed) => served >= 1
    /\ (pc = "update" /\ DueCount(day) > 0) => served >= 1
    /\ (pc = "inner" /\ passes >= 1) =>
          passes <= (IF DueCount(day) = 0 THEN 1 ELSE DueCount(day))

C17_Witness ==
    /\ pc = "for" /\ i = 1 /\ passes >= 2
    /\ left_in_vial = vial_volume /\ served = 0
    /\ \E k \in 1..total_people : Due(k) /\ ~injections_handled[k]

\* ---- C18 -----------------------------------------------------------------

\* C18: an active leftover holds at least the smallest and less than the
\* largest dosage; an injection of the largest dosage never touches the
\* leftover.
C18_LeftoverBounds ==
    /\ [](leftover_vial =>
            (Le(MinDosage, leftover_amount)
                /\ Lt(leftover_amount, MaxDosage)))
    /\ [][(Attempting /\ dosage_dicts[i].dosage = MaxDosage) =>
            UNCHANGED <<leftover_vial, leftover_amount>>]_vars

C18_Witness ==
    /\ pc \in {"for", "update"}
    /\ last_source = "leftover" /\ leftover_vial
    /\ Lt(leftover_amount, MaxDosage) /\ Ge(leftover_amount, MinDosage)

\* ---- C19 -----------------------------------------------------------------

\* C19 as stated: waste + consumed volume + left_in_vial + active leftover
\* never exceeds (vials_used + 1) * vial_volume, and equals it as long as no
\* active leftover has been overwritten.
C19_AsStated ==
    ~early_termination =>
        /\ Le(Balance, Supply(vials_used + 1))
        /\ (overwritten = Zero) => Balance = Supply(vials_used + 1)

\* C19 amended: the same up to the rounding error the run has accumulated.
\* With R = the sum of the rounding errors (stored double against exact
\* result) of the floating-point sums and differences the run has stored in
\* waste, left_in_vial and leftover_amount so far: the balance never exceeds
\* (vials_used + 1) * vial_volume by more than R, and as long as no active
\* leftover has been overwritten it differs from it by at most R.
C19_NoVolumeCreated ==
    ~early_termination =>
        /\ AtMost(Balance, Supply(vials_used + 1), roundoff)
        /\ (overwritten = Zero) =>
              Within(Balance, Supply(vials_used + 1), roundoff)

\* a trial that returned without ever overwriting an active leftover and
\* whose computed balance lies above (vials_used + 1) * vial_volume by rounding
C19_Witness ==
    /\ Returned /\ overwritten = Zero
    /\ Gt(consumed, Zero)
    /\ Gt(Balance, Supply(vials_used + 1))
====
